---- MODULE Spec2Model ----
(***************************************************************************)
(* srs-resolver: a TCP service that answers "get <address>" with the       *)
(* original sender of an SRS0/SRS1 rewritten address.                      *)
(*                                                                         *)
(* Strings are sequences of one-character strings, so that the Go string   *)
(* functions the program uses (TrimSpace, HasPrefix, SplitN, Split,        *)
(* ContainsAny, Count, Contains) are computed character by character.      *)
(***************************************************************************)
EXTENDS Integers, Sequences, FiniteSets, TLC

(***************************************************************************)
(* Bounds of the model.                                                    *)
(***************************************************************************)
\* number of client connections of the server specification
MaxConns == 2
\* longest generated address body (the part after an optional SRSn= prefix)
MaxBody == 5
\* failed Accept calls the model follows
MaxAcceptErrors == 1

(***************************************************************************)
(* Go string functions.                                                    *)
(***************************************************************************)
\* unicode.IsSpace restricted to the characters a TCP text line carries
IsSpace(ch) == ch \in {" ", "\t", "\n", "\r", "\f"}

RECURSIVE TrimLeft(_)
TrimLeft(s) ==
    IF s = <<>> THEN <<>>
    ELSE IF IsSpace(Head(s)) THEN TrimLeft(Tail(s)) ELSE s

RECURSIVE TrimRight(_)
TrimRight(s) ==
    IF s = <<>> THEN <<>>
    ELSE IF IsSpace(s[Len(s)]) THEN TrimRight(SubSeq(s, 1, Len(s) - 1)) ELSE s

\* strings.TrimSpace
TrimSpace(s) == TrimRight(TrimLeft(s))

\* strings.HasPrefix
HasPrefix(s, p) == Len(s) >= Len(p) /\ SubSeq(s, 1, Len(p)) = p

\* strings.IndexByte: position of the first ch in s, 0 when there is none
RECURSIVE IndexFrom(_, _, _)
IndexFrom(s, ch, i) ==
    IF i > Len(s) THEN 0
    ELSE IF s[i] = ch THEN i ELSE IndexFrom(s, ch, i + 1)

Index(s, ch) == IndexFrom(s, ch, 1)

\* strings.Contains for a one-character substring
Contains(s, ch) == Index(s, ch) # 0

\* strings.Count for a one-character substring
RECURSIVE Count(_, _)
Count(s, ch) ==
    IF s = <<>> THEN 0
    ELSE (IF Head(s) = ch THEN 1 ELSE 0) + Count(Tail(s), ch)

\* strings.ContainsAny
RECURSIVE ContainsAny(_, _)
ContainsAny(s, chars) ==
    IF s = <<>> THEN FALSE
    ELSE IF Contains(chars, Head(s)) THEN TRUE ELSE ContainsAny(Tail(s), chars)

\* strings.SplitN(s, sep, n) for n > 0 and a one-character sep: at most n
\* pieces, the last one being the unsplit remainder
RECURSIVE SplitN(_, _, _)
SplitN(s, sep, n) ==
    IF n <= 1 THEN <<s>>
    ELSE LET i == Index(s, sep)
         IN  IF i = 0 THEN <<s>>
             ELSE <<SubSeq(s, 1, i - 1)>>
                      \o SplitN(SubSeq(s, i + 1, Len(s)), sep, n - 1)

\* strings.Split(s, sep): every piece
Split(s, sep) == SplitN(s, sep, Len(s) + 1)

(***************************************************************************)
(* Program constants and the two pure functions of the resolver.           *)
(***************************************************************************)
\* const notAllowedChars = " <>(),;=\""
notAllowedChars == <<" ", "<", ">", "(", ")", ",", ";", "=", "\"">>

GetPrefix == <<"g", "e", "t", " ">>
SRS0Prefix == <<"S", "R", "S", "0", "=">>
SRS1Prefix == <<"S", "R", "S", "1", "=">>

\* fmt.Sprintf("%s@%s", a, b)
SprintfAt(a, b) == a \o <<"@">> \o b

\* decodeLocal without its "@" case: the whole local segment is kept
decodeLocalWhole(local) == local

\* the local part decodeSRS keeps of parts[4]
decodeLocal(local) ==
    IF Contains(local, "@") THEN Split(local, "@")[1] ELSE local

\* decodeSRS taking the domain one field too early (parts[2])
decodeSRSTimeAsDomain(srs) ==
    LET parts == SplitN(srs, "=", 5)
    IN  IF Len(parts) # 5
        THEN [val |-> <<>>, err |-> TRUE]
        ELSE [val |-> SprintfAt(decodeLocal(parts[5]), parts[3]), err |-> FALSE]

\* decodeSRS accepting four parts (len(parts) < 4 as the error test)
decodeSRSFourParts(srs) ==
    LET parts == SplitN(srs, "=", 5)
        n == Len(parts)
    IN  IF n < 4
        THEN [val |-> <<>>, err |-> TRUE]
        ELSE [val |-> SprintfAt(decodeLocal(parts[n]), parts[n - 1]), err |-> FALSE]

\* decodeSRS refusing an empty domain or local field
decodeSRSNonEmptyFields(srs) ==
    LET parts == SplitN(srs, "=", 5)
    IN  IF Len(parts) # 5 \/ parts[4] = <<>> \/ parts[5] = <<>>
        THEN [val |-> <<>>, err |-> TRUE]
        ELSE [val |-> SprintfAt(decodeLocal(parts[5]), parts[4]), err |-> FALSE]

\* decodeSRS(srs) (string, error): err is TRUE when an error is returned
decodeSRS(srs) ==
    LET parts == SplitN(srs, "=", 5)
    IN  IF Len(parts) # 5
        THEN [val |-> <<>>, err |-> TRUE]
        ELSE [val |-> SprintfAt(decodeLocal(parts[5]), parts[4]), err |-> FALSE]

\* isCleanEmail without its test of the local part
isCleanEmailAnyLocal(s) ==
    IF ContainsAny(s, notAllowedChars) THEN FALSE
    ELSE IF Count(s, "@") # 1 THEN FALSE
    ELSE LET parts == Split(s, "@")
         IN  IF Len(parts[2]) < 3 THEN FALSE
             ELSE IF ~Contains(parts[2], ".") THEN FALSE
             ELSE TRUE

\* isCleanEmail with len(parts[1]) <= 3 as the domain test
isCleanEmailLongDomain(s) ==
    IF ContainsAny(s, notAllowedChars) THEN FALSE
    ELSE IF Count(s, "@") # 1 THEN FALSE
    ELSE LET parts == Split(s, "@")
         IN  IF Len(parts[1]) = 0 \/ Len(parts[2]) <= 3 THEN FALSE
             ELSE IF ~Contains(parts[2], ".") THEN FALSE
             ELSE TRUE

isCleanEmail(s) ==
    IF ContainsAny(s, notAllowedChars) THEN FALSE
    ELSE IF Count(s, "@") # 1 THEN FALSE
    ELSE LET parts == Split(s, "@")
         IN  IF Len(parts[1]) = 0 \/ Len(parts[2]) < 3 THEN FALSE
             ELSE IF ~Contains(parts[2], ".") THEN FALSE
             ELSE TRUE


(***************************************************************************)
(* Response lines of handle.                                               *)
(***************************************************************************)
\* fmt.Fprintf(conn, "500 read error\n")
ReadErrorLine == <<"5", "0", "0", " ", "r", "e", "a", "d", " ", "e", "r", "r", "o", "r", "\n">>

\* fmt.Fprintf(conn, "500 invalid request\n")
InvalidRequestLine ==
    <<"5", "0", "0", " ", "i", "n", "v", "a", "l", "i", "d", " ", "r", "e", "q", "u", "e", "s", "t", "\n">>

\* fmt.Fprintf(conn, "200 %s\n", a)
Fprintf200(a) == <<"2", "0", "0", " ">> \o a \o <<"\n">>

\* the fallback-or-error branch with its test inverted
fallbackResponseInverted(fallback) ==
    IF fallback = <<>> THEN Fprintf200(fallback) ELSE InvalidRequestLine

\* the fallback-or-error branch, the same in both places of handle
fallbackResponse(fallback) ==
    IF fallback # <<>> THEN Fprintf200(fallback) ELSE InvalidRequestLine

\* address := strings.TrimSpace(line[4:])
addressOf(trimmed) == TrimSpace(SubSeq(trimmed, 5, Len(trimmed)))

\* strings.HasPrefix(address, "SRS0=") || strings.HasPrefix(address, "SRS1=")
isSRS(address) == HasPrefix(address, SRS0Prefix) \/ HasPrefix(address, SRS1Prefix)

\* handle refusing an undecodable SRS address whatever the fallback
handleAddressStrictSRS(address, fallback) ==
    IF ~isSRS(address)
    THEN IF isCleanEmail(address)
         THEN [writes |-> <<Fprintf200(address)>>, address |-> address,
               used |-> {"isCleanEmail"}]
         ELSE [writes |-> <<fallbackResponse(fallback)>>, address |-> address,
               used |-> {"isCleanEmail", "FallbackAddress"}]
    ELSE LET d == decodeSRS(address)
         IN  IF d.err
             THEN [writes |-> <<InvalidRequestLine>>, address |-> address,
                   used |-> {"decodeSRS"}]
             ELSE [writes |-> <<Fprintf200(d.val)>>, address |-> address,
                   used |-> {"decodeSRS"}]

\* handle from the classification of address on: writes is the sequence of
\* texts it passes to fmt.Fprintf(conn, ...), address the local variable of
\* that name, used the helpers it has called and the configuration fields
\* it has read
handleAddress(address, fallback) ==
    IF ~isSRS(address)
    THEN IF isCleanEmail(address)
         THEN [writes |-> <<Fprintf200(address)>>, address |-> address,
               used |-> {"isCleanEmail"}]
         ELSE [writes |-> <<fallbackResponse(fallback)>>, address |-> address,
               used |-> {"isCleanEmail", "FallbackAddress"}]
    ELSE LET d == decodeSRS(address)
         IN  IF d.err
             THEN [writes |-> <<fallbackResponse(fallback)>>, address |-> address,
                   used |-> {"decodeSRS", "FallbackAddress"}]
             ELSE [writes |-> <<Fprintf200(d.val)>>, address |-> address,
                   used |-> {"decodeSRS"}]

\* handle without the return after "500 invalid request": it goes on to
\* classify what follows the first four characters
handleLineNoReturn(line, err, fallback) ==
    IF err
    THEN [writes |-> <<ReadErrorLine>>, address |-> <<>>, used |-> {}]
    ELSE LET trimmed == TrimSpace(line)
             rest == handleAddress(addressOf(trimmed), fallback)
         IN  IF ~HasPrefix(trimmed, GetPrefix)
             THEN [rest EXCEPT !.writes = <<InvalidRequestLine>> \o @]
             ELSE rest

\* handle answering an unknown command like an unknown address
handleLineCommandFallback(line, err, fallback) ==
    IF err
    THEN [writes |-> <<ReadErrorLine>>, address |-> <<>>, used |-> {}]
    ELSE LET trimmed == TrimSpace(line)
         IN  IF ~HasPrefix(trimmed, GetPrefix)
             THEN [writes |-> <<fallbackResponse(fallback)>>, address |-> <<>>,
                   used |-> {"FallbackAddress"}]
             ELSE handleAddress(addressOf(trimmed), fallback)

\* what handle does with the result (line, err) of ReadString, along the
\* path the code takes (address is <<>> on the paths that never assign it);
\* address := strings.TrimSpace(line[4:]) is a value computed once, which
\* the one-element set says
handleLine(line, err, fallback) ==
    IF err
    THEN [writes |-> <<ReadErrorLine>>, address |-> <<>>, used |-> {}]
    ELSE LET trimmed == TrimSpace(line)
         IN  IF ~HasPrefix(trimmed, GetPrefix)
             THEN [writes |-> <<InvalidRequestLine>>, address |-> <<>>, used |-> {}]
             ELSE CHOOSE r \in {handleAddress(address, fallback) :
                                    address \in {addressOf(trimmed)}} : TRUE

(***************************************************************************)
(* State.                                                                  *)
(***************************************************************************)
VARIABLES
    pc,               \* where main is
    cfg,              \* the *Config LoadConfig returned
    currentLogLevel,  \* the package variable of that name
    euid, egid,       \* effective user and group of the process
    steps,            \* the startup calls main has made so far, in order
    warnings,         \* the root warnings dropPrivileges has logged
    acceptErrors,     \* failed ln.Accept() calls so far
    conns             \* the connections, client side and handler side

vars == <<pc, cfg, currentLogLevel, euid, egid, steps, warnings, acceptErrors, conns>>

Conns == 1..MaxConns

NoConfig == [Listen |-> "", LogFile |-> "", LogLevel |-> "",
             FallbackAddress |-> <<>>, DropUser |-> "", DropGroup |-> ""]

\* a connection nobody has opened yet
\*   client: idle | open | closed (FIN sent) | reset (connection aborted)
\*   inbuf:  the bytes the client has sent
\*   hpc:    none (not accepted) | read | handle | close | done
\*   line, err: what reader.ReadString('\n') returned
\*   address, used: see handleLine
\*   out:    the texts handle has written with Fprintf, in order
\*   closed: conn.Close() has run
\*   reads:  calls of ReadString that have returned
IdleConn == [client |-> "idle", inbuf |-> <<>>, hpc |-> "none", line |-> <<>>,
             err |-> FALSE, address |-> <<>>, used |-> {}, out |-> <<>>,
             closed |-> FALSE, reads |-> 0]

InitWith(startUsers) ==
    /\ pc = "LoadConfig"
    /\ cfg = NoConfig
    /\ currentLogLevel = "LogError"
    /\ euid \in startUsers
    /\ egid = euid
    /\ steps = <<>>
    /\ warnings = {}
    /\ acceptErrors = 0
    /\ conns = [c \in Conns |-> IdleConn]


(***************************************************************************)
(* main: startup.  Every step that fails ends the process (os.Exit(1) or   *)
(* log.Fatalf), pc = "exit".                                               *)
(***************************************************************************)
\* a call and whether it succeeded
Call(name, ok) == [call |-> name, ok |-> ok]

Step(name, ok) == steps' = Append(steps, Call(name, ok))

\* strings.ToLower on the log levels the configurations carry
ToLower(level) ==
    CASE level = "DEBUG" -> "debug"
      [] level = "Info" -> "info"
      [] OTHER -> level

\* the switch of InitLogging
levelOf(name) ==
    CASE ToLower(name) = "debug" -> "LogDebug"
      [] ToLower(name) = "info" -> "LogInfo"
      [] ToLower(name) = "error" -> "LogError"
      [] OTHER -> "LogError"

\* cfg, err := LoadConfig(path) with err == nil
LoadConfig(c) ==
    /\ pc = "LoadConfig"
    /\ cfg' = c
    /\ Step("LoadConfig", TRUE)
    /\ pc' = "InitLogging"
    /\ UNCHANGED <<currentLogLevel, euid, egid, warnings, acceptErrors, conns>>

\* LoadConfig returns an error: os.Exit(1)
LoadConfigFail ==
    /\ pc = "LoadConfig"
    /\ Step("LoadConfig", FALSE)
    /\ pc' = "exit"
    /\ UNCHANGED <<cfg, currentLogLevel, euid, egid, warnings, acceptErrors, conns>>

\* main going from InitLogging straight to net.Listen, as the main of
\* cmd/srs-resolver/main.go does
InitLoggingThenListen ==
    /\ pc = "InitLogging"
    /\ currentLogLevel' = levelOf(cfg.LogLevel)
    /\ Step("InitLogging", TRUE)
    /\ pc' = "Listen"
    /\ UNCHANGED <<cfg, euid, egid, warnings, acceptErrors, conns>>

\* InitLogging(cfg) returns nil
InitLogging ==
    /\ pc = "InitLogging"
    /\ currentLogLevel' = levelOf(cfg.LogLevel)
    /\ Step("InitLogging", TRUE)
    /\ pc' = "dropGroup"
    /\ UNCHANGED <<cfg, euid, egid, warnings, acceptErrors, conns>>

\* os.OpenFile of the log file fails: InitLogging returns the error, after
\* it has set the level; os.Exit(1).  logToStdOut is the command-line flag
InitLoggingFail(logToStdOut) ==
    /\ pc = "InitLogging"
    /\ cfg.LogFile # "" /\ ~logToStdOut
    /\ currentLogLevel' = levelOf(cfg.LogLevel)
    /\ Step("InitLogging", FALSE)
    /\ pc' = "exit"
    /\ UNCHANGED <<cfg, euid, egid, warnings, acceptErrors, conns>>

\* setgid(2)/setuid(2): a process may switch when it is root, or to the
\* identity it already has
MaySwitch(target, current) == euid = "root" \/ target = current

\* the calls of one section of dropPrivileges up to its outcome: "lookup"
\* (the lookup by name fails), "atoi" (strconv.Atoi fails), "set" (the
\* switch fails) or "ok"
SwitchCalls(lookup, atoi, set, outcome) ==
    CASE outcome = "lookup" -> <<Call(lookup, FALSE)>>
      [] outcome = "atoi" -> <<Call(lookup, TRUE), Call(atoi, FALSE)>>
      [] outcome = "set" -> <<Call(lookup, TRUE), Call(atoi, TRUE), Call(set, FALSE)>>
      [] OTHER -> <<Call(lookup, TRUE), Call(atoi, TRUE), Call(set, TRUE)>>

\* the set GID section with its errors logged and not returned: the set
\* UID section follows in every case
DropGroupContinues(outcome) ==
    /\ pc = "dropGroup"
    /\ IF cfg.DropGroup = ""
       THEN /\ outcome = "ok"
            /\ pc' = "dropUser"
            /\ UNCHANGED <<egid, steps>>
       ELSE /\ outcome = "ok" => MaySwitch(cfg.DropGroup, egid)
            /\ steps' = steps \o SwitchCalls("LookupGroup", "Atoi(Gid)", "Setgid", outcome)
            /\ egid' = IF outcome = "ok" THEN cfg.DropGroup ELSE egid
            /\ pc' = "dropUser"
    /\ UNCHANGED <<cfg, currentLogLevel, euid, warnings, acceptErrors, conns>>

\* the set GID section of dropPrivileges; an error returned to main is
\* fatal (logFatal)
DropGroup(outcome) ==
    /\ pc = "dropGroup"
    /\ IF cfg.DropGroup = ""
       THEN /\ outcome = "ok"
            /\ pc' = "dropUser"
            /\ UNCHANGED <<egid, steps>>
       ELSE /\ outcome = "ok" => MaySwitch(cfg.DropGroup, egid)
            /\ steps' = steps \o SwitchCalls("LookupGroup", "Atoi(Gid)", "Setgid", outcome)
            /\ egid' = IF outcome = "ok" THEN cfg.DropGroup ELSE egid
            /\ pc' = IF outcome = "ok" THEN "dropUser" ELSE "exit"
    /\ UNCHANGED <<cfg, currentLogLevel, euid, warnings, acceptErrors, conns>>

\* the set UID section of dropPrivileges
DropUser(outcome) ==
    /\ pc = "dropUser"
    /\ IF cfg.DropUser = ""
       THEN /\ outcome = "ok"
            /\ pc' = "checkIds"
            /\ UNCHANGED <<euid, steps>>
       ELSE /\ outcome = "ok" => MaySwitch(cfg.DropUser, euid)
            /\ steps' = steps \o SwitchCalls("Lookup", "Atoi(Uid)", "Setuid", outcome)
            /\ euid' = IF outcome = "ok" THEN cfg.DropUser ELSE euid
            /\ pc' = IF outcome = "ok" THEN "checkIds" ELSE "exit"
    /\ UNCHANGED <<cfg, currentLogLevel, egid, warnings, acceptErrors, conns>>

\* the check UId/GId section returning an error when the process is still
\* root
CheckIdsRootFatal(outcome) ==
    /\ pc = "checkIds"
    /\ steps' = steps \o
            (CASE outcome = "user" -> <<Call("LookupId", FALSE)>>
               [] outcome = "group" ->
                    <<Call("LookupId", TRUE), Call("LookupGroupId", FALSE)>>
               [] OTHER -> <<Call("LookupId", TRUE), Call("LookupGroupId", TRUE)>>)
    /\ warnings' = IF outcome = "ok"
                   THEN {w \in {"user", "group"} :
                            \/ w = "user" /\ euid = "root"
                            \/ w = "group" /\ egid = "root"}
                   ELSE warnings
    /\ pc' = IF outcome = "ok" /\ euid # "root" /\ egid # "root" THEN "Listen" ELSE "exit"
    /\ UNCHANGED <<cfg, currentLogLevel, euid, egid, acceptErrors, conns>>

\* the check UId/GId section of dropPrivileges: "user" (user.LookupId
\* fails), "group" (user.LookupGroupId fails) or "ok"
CheckIds(outcome) ==
    /\ pc = "checkIds"
    /\ steps' = steps \o
            (CASE outcome = "user" -> <<Call("LookupId", FALSE)>>
               [] outcome = "group" ->
                    <<Call("LookupId", TRUE), Call("LookupGroupId", FALSE)>>
               [] OTHER -> <<Call("LookupId", TRUE), Call("LookupGroupId", TRUE)>>)
    /\ warnings' = IF outcome = "ok"
                   THEN {w \in {"user", "group"} :
                            \/ w = "user" /\ euid = "root"
                            \/ w = "group" /\ egid = "root"}
                   ELSE warnings
    /\ pc' = IF outcome = "ok" THEN "Listen" ELSE "exit"
    /\ UNCHANGED <<cfg, currentLogLevel, euid, egid, acceptErrors, conns>>

\* ln, err := net.Listen("tcp", cfg.Listen) with err == nil
Listen ==
    /\ pc = "Listen"
    /\ Step("Listen", TRUE)
    /\ pc' = "Accept"
    /\ UNCHANGED <<cfg, currentLogLevel, euid, egid, warnings, acceptErrors, conns>>

\* net.Listen fails and main only logs the error
ListenFailLogged ==
    /\ pc = "Listen"
    /\ Step("Listen", FALSE)
    /\ pc' = "Accept"
    /\ UNCHANGED <<cfg, currentLogLevel, euid, egid, warnings, acceptErrors, conns>>

\* net.Listen fails: logFatal
ListenFail ==
    /\ pc = "Listen"
    /\ Step("Listen", FALSE)
    /\ pc' = "exit"
    /\ UNCHANGED <<cfg, currentLogLevel, euid, egid, warnings, acceptErrors, conns>>

(***************************************************************************)
(* main: the accept loop.                                                  *)
(***************************************************************************)
\* ln.Accept() returns connection c; handle(conn, cfg) called without "go":
\* main is back at Accept only when the handler has returned
AcceptAfterHandle(c) ==
    /\ pc = "Accept"
    /\ \A d \in Conns : conns[d].hpc \in {"none", "done"}
    /\ conns[c].client # "idle"
    /\ conns[c].hpc = "none"
    /\ conns' = [conns EXCEPT ![c].hpc = "read"]
    /\ UNCHANGED <<pc, cfg, currentLogLevel, euid, egid, steps, warnings, acceptErrors>>

\* ln.Accept() returns connection c; go handle(conn, cfg)
Accept(c) ==
    /\ pc = "Accept"
    /\ conns[c].client # "idle"
    /\ conns[c].hpc = "none"
    /\ conns' = [conns EXCEPT ![c].hpc = "read"]
    /\ UNCHANGED <<pc, cfg, currentLogLevel, euid, egid, steps, warnings, acceptErrors>>

\* ln.Accept() returns an error and main ends (logFatal for logError)
AcceptFailFatal ==
    /\ pc = "Accept"
    /\ acceptErrors < MaxAcceptErrors
    /\ acceptErrors' = acceptErrors + 1
    /\ pc' = "exit"
    /\ UNCHANGED <<cfg, currentLogLevel, euid, egid, steps, warnings, conns>>

\* ln.Accept() returns an error: logError, continue
AcceptFail ==
    /\ pc = "Accept"
    /\ acceptErrors < MaxAcceptErrors
    /\ acceptErrors' = acceptErrors + 1
    /\ UNCHANGED <<pc, cfg, currentLogLevel, euid, egid, steps, warnings, conns>>

(***************************************************************************)
(* Clients.                                                                *)
(***************************************************************************)
\* a client connects to the bound socket
ClientConnect(c) ==
    /\ pc = "Accept"
    /\ conns[c].client = "idle"
    /\ conns' = [conns EXCEPT ![c].client = "open"]
    /\ UNCHANGED <<pc, cfg, currentLogLevel, euid, egid, steps, warnings, acceptErrors>>

\* a client sends its request text (once), one of texts
ClientSend(c, texts) ==
    /\ conns[c].client = "open"
    /\ conns[c].inbuf = <<>>
    /\ \E data \in texts \ {<<>>} : conns' = [conns EXCEPT ![c].inbuf = data]
    /\ UNCHANGED <<pc, cfg, currentLogLevel, euid, egid, steps, warnings, acceptErrors>>

\* a client gives up before its request has been read (how: "closed" is an
\* orderly FIN, "reset" an aborted connection); what a client does later
\* the handler never sees
ClientClose(c, how) ==
    /\ conns[c].client = "open"
    /\ conns[c].hpc \in {"none", "read"}
    /\ conns' = [conns EXCEPT ![c].client = how]
    /\ UNCHANGED <<pc, cfg, currentLogLevel, euid, egid, steps, warnings, acceptErrors>>

(***************************************************************************)
(* handle(conn, cfg), one goroutine per accepted connection.               *)
(***************************************************************************)
\* ReadString under a read deadline (conn.SetReadDeadline): it may also
\* fail while the client is connected and has sent no newline
HandleReadDeadline(c, fails) ==
    LET k == conns[c]
        nl == Index(k.inbuf, "\n")
    IN  /\ k.hpc = "read"
        /\ IF fails
           THEN \/ k.client = "reset"
                \/ k.client = "closed" /\ nl = 0
                \/ k.client = "open" /\ nl = 0
           ELSE nl # 0
        /\ conns' = [conns EXCEPT
                        ![c].line = IF fails THEN (IF k.client = "reset" THEN <<>> ELSE k.inbuf)
                                    ELSE SubSeq(k.inbuf, 1, nl),
                        ![c].err = fails,
                        ![c].reads = k.reads + 1,
                        ![c].hpc = "handle"]
        /\ UNCHANGED <<pc, cfg, currentLogLevel, euid, egid, steps, warnings, acceptErrors>>

\* ReadString whose io.EOF is not treated as an error when text has come
HandleReadIgnoreEOF(c, fails) ==
    LET k == conns[c]
        nl == Index(k.inbuf, "\n")
    IN  /\ k.hpc = "read"
        /\ IF fails
           THEN \/ k.client = "reset"
                \/ k.client = "closed" /\ nl = 0
           ELSE nl # 0
        /\ conns' = [conns EXCEPT
                        ![c].line = IF fails THEN (IF k.client = "reset" THEN <<>> ELSE k.inbuf)
                                    ELSE SubSeq(k.inbuf, 1, nl),
                        ![c].err = fails /\ (k.client = "reset" \/ k.inbuf = <<>>),
                        ![c].reads = k.reads + 1,
                        ![c].hpc = "handle"]
        /\ UNCHANGED <<pc, cfg, currentLogLevel, euid, egid, steps, warnings, acceptErrors>>

\* line, err := reader.ReadString('\n') returns: with the text up to the
\* first newline, or with an error at end of input or on a failed read
HandleRead(c, fails) ==
    LET k == conns[c]
        nl == Index(k.inbuf, "\n")
    IN  /\ k.hpc = "read"
        /\ IF fails
           THEN \/ k.client = "reset"
                \/ k.client = "closed" /\ nl = 0
           ELSE nl # 0
        /\ conns' = [conns EXCEPT
                        ![c].line = IF fails THEN (IF k.client = "reset" THEN <<>> ELSE k.inbuf)
                                    ELSE SubSeq(k.inbuf, 1, nl),
                        ![c].err = fails,
                        ![c].reads = k.reads + 1,
                        ![c].hpc = "handle"]
        /\ UNCHANGED <<pc, cfg, currentLogLevel, euid, egid, steps, warnings, acceptErrors>>

\* the rest of handle, reached only once the client has ended the stream
\* (a handler that reads on to io.EOF before it answers)
HandleRequestAfterEOF(c) ==
    LET k == conns[c]
    IN  /\ k.hpc = "handle"
        /\ k.client # "open"
        /\ \E h \in {handleLine(k.line, k.err, cfg.FallbackAddress)} :
              conns' = [conns EXCEPT
                          ![c].out = k.out \o h.writes,
                          ![c].address = h.address,
                          ![c].used = h.used,
                          ![c].hpc = "close"]
        /\ UNCHANGED <<pc, cfg, currentLogLevel, euid, egid, steps, warnings, acceptErrors>>

\* the rest of handle in a program that, at debug verbosity, answers every
\* refused request with the read-error text
HandleRequestByLevel(c) ==
    LET k == conns[c]
    IN  /\ k.hpc = "handle"
        /\ \E h \in {handleLine(k.line, k.err, cfg.FallbackAddress)} :
              conns' = [conns EXCEPT
                          ![c].out = k.out \o
                              (IF currentLogLevel = "LogDebug" /\ h.writes = <<InvalidRequestLine>>
                               THEN <<ReadErrorLine>> ELSE h.writes),
                          ![c].address = h.address,
                          ![c].used = h.used,
                          ![c].hpc = "close"]
        /\ UNCHANGED <<pc, cfg, currentLogLevel, euid, egid, steps, warnings, acceptErrors>>

\* the rest of handle up to its return
HandleRequest(c) ==
    LET k == conns[c]
    IN  /\ k.hpc = "handle"
        /\ \E h \in {handleLine(k.line, k.err, cfg.FallbackAddress)} :
              conns' = [conns EXCEPT
                          ![c].out = k.out \o h.writes,
                          ![c].address = h.address,
                          ![c].used = h.used,
                          ![c].hpc = "close"]
        /\ UNCHANGED <<pc, cfg, currentLogLevel, euid, egid, steps, warnings, acceptErrors>>

\* defer conn.Close() in a handler that also puts the log level back to
\* its default
HandleCloseResetsLevel(c) ==
    /\ conns[c].hpc = "close"
    /\ conns' = [conns EXCEPT ![c].closed = TRUE, ![c].hpc = "done"]
    /\ currentLogLevel' = "LogError"
    /\ UNCHANGED <<pc, cfg, euid, egid, steps, warnings, acceptErrors>>

\* defer conn.Close()
HandleClose(c) ==
    /\ conns[c].hpc = "close"
    /\ conns' = [conns EXCEPT ![c].closed = TRUE, ![c].hpc = "done"]
    /\ UNCHANGED <<pc, cfg, currentLogLevel, euid, egid, steps, warnings, acceptErrors>>


(***************************************************************************)
(* Inputs: configurations and request texts.                               *)
(***************************************************************************)
\* fallback_address = "root@domain.com"
RootAtDomain == <<"r", "o", "o", "t", "@", "d", "o", "m", "a", "i", "n", ".", "c", "o", "m">>

Config(level, fallback, user, group) ==
    [Listen |-> "127.0.0.1:10022", LogFile |-> "/var/log/srs-resolver.log",
     LogLevel |-> level, FallbackAddress |-> fallback,
     DropUser |-> user, DropGroup |-> group]

\* the configurations of the startup specification
Configs ==
    {Config(level, fallback, user, group) :
        level \in {"DEBUG", "error"}, fallback \in {<<>>, RootAtDomain},
        user \in {"", "srs"}, group \in {"", "srs"}}

\* the configurations of the server and resolver specifications: every
\* fallback setting, no identity switch
ResolveConfigs ==
    {Config("info", fallback, "", "") : fallback \in {<<>>, RootAtDomain}}

\* the addresses of the test script (test/test_srs_resolver.sh)
TestAddresses ==
    {<<"u", "s", "e", "r", "@", "e", "x", "a", "m", "p", "l", "e", ".", "c", "o", "m">>,
     <<"a", "d", "m", "i", "n", "+", "t", "a", "g", "@", "c", "o", "m", "p", "a", "n", "y", ".", "c", "o", "m">>,
     <<"S", "R", "S", "0", "=", "h", "a", "s", "h", "1", "2", "3", "=", "1", "2", "3", "4", "5", "=", "e", "x", "a", "m", "p", "l", "e", ".", "c", "o", "m", "=", "d", "a", "m", "i", "a", "n">>,
     <<"S", "R", "S", "1", "=", "h", "a", "s", "h", "4", "5", "6", "=", "1", "2", "3", "4", "5", "=", "e", "x", "a", "m", "p", "l", "e", ".", "c", "o", "m", "=", "u", "s", "e", "r", ".", "n", "a", "m", "e">>,
     <<"S", "R", "S", "0", "=", "a", "b", "c", "1", "2", "3", "=", "1", "2", "3", "4", "5", "=", "d", "o", "m", "a", "i", "n", ".", "p", "l", "=", "u", "s", "e", "r", ".", "s", "u", "r", "n", "a", "m", "e", "@", "d", "o", "m", "a", "i", "n", ".", "t", "d", "l">>,
     <<"S", "R", "S", "1", "=", "d", "e", "f", "4", "5", "6", "=", "6", "7", "8", "9", "0", "=", "e", "x", "a", "m", "p", "l", "e", ".", "c", "o", "m", "=", "u", "s", "e", "r", "@", "f", "o", "r", "w", "a", "r", "d", "e", "r", ".", "c", "o", "m">>,
     <<"i", "n", "v", "a", "l", "i", "d", "-", "e", "m", "a", "i", "l", "-", "w", "i", "t", "h", "o", "u", "t", "-", "a", "t">>,
     <<"e", "m", "a", "i", "l", "@">>,
     <<"@", "d", "o", "m", "a", "i", "n", ".", "c", "o", "m">>,
     <<"e", "m", "a", "i", "l", " ", "w", "i", "t", "h", " ", "s", "p", "a", "c", "e", "s", "@", "d", "o", "m", "a", "i", "n", ".", "c", "o", "m">>,
     <<"e", "m", "a", "i", "l", "<", "w", "i", "t", "h", ">", "f", "o", "r", "b", "i", "d", "d", "e", "n", "@", "c", "h", "a", "r", "s", ".", "c", "o", "m">>,
     <<"S", "R", "S", "0", "=", "i", "n", "c", "o", "m", "p", "l", "e", "t", "e">>,
     <<"S", "R", "S", "0", "=", "t", "o", "o", "=", "f", "e", "w", "=", "p", "a", "r", "t", "s">>,
     <<"S", "R", "S", "0", "=", "t", "o", "o", "=", "m", "a", "n", "y", "=", "e", "q", "u", "a", "l", "=", "s", "i", "g", "n", "s", "=", "h", "e", "r", "e", "=", "a", "n", "d", "=", "m", "o", "r", "e">>,
     <<"S", "R", "S", "0", "=">>,
     <<"S", "R", "S", "1", "=">>,
     <<>>}

\* every string over Alphabet of length at most n
Alphabet == {"a", ".", "@", "="}
Strings(n) == UNION {[1..k -> Alphabet] : k \in 0..n}

\* addresses: a body, alone or behind an SRS prefix
Addresses ==
    {p \o b : p \in {<<>>, SRS0Prefix, SRS1Prefix}, b \in Strings(MaxBody)}

\* test_address: printf "get %s\n" "$address" | nc
GetLine(address) == GetPrefix \o address \o <<"\n">>

\* other request texts: other commands, other case, stray whitespace,
\* no newline, a second line
OtherTexts ==
    {<<"p", "u", "t", " ", "s", "o", "m", "e", "t", "h", "i", "n", "g", "\n">>,
     <<"d", "e", "l", "e", "t", "e", " ", "t", "e", "s", "t", "\n">>,
     <<"G", "E", "T", " ", "a", "@", "b", ".", "c", "d", "\n">>,
     <<"g", "e", "t", "\n">>,
     <<"g", "e", "t", " ", "\n">>,
     <<"g", "e", "t", " ", "\t", " ", "\n">>,
     <<"\n">>,
     <<" ", "\n">>,
     <<"g", "e", "t", "u", "s", "e", "r", "@", "e", "x", "a", "m", "p", "l", "e", ".", "c", "o", "m", "\n">>,
     <<" ", " ", "g", "e", "t", " ", "u", "s", "e", "r", "@", "e", "x", "a", "m", "p", "l", "e", ".", "c", "o", "m", "\n">>,
     <<"g", "e", "t", " ", " ", " ", "u", "s", "e", "r", "@", "e", "x", "a", "m", "p", "l", "e", ".", "c", "o", "m", " ", " ", "\r", "\n">>,
     <<"g", "e", "t", " ", "\t", "S", "R", "S", "0", "=", "h", "=", "t", "=", "d", ".", "e", "=", "l", " ", "\r", "\n">>,
     <<"g", "e", "t", " ", "S", "R", "S", "0", "=", "h", "=", "t", "=", "d", ".", "e", "=", " ", "l", "@", "f", ".", "g", "\n">>,
     <<"g", "e", "t", " ", "a", " ", "b", "@", "d", ".", "e", "f", "\n">>,
     <<"g", "e", "t", " ", "S", "R", "S", "0", " ", "=", "h", "=", "t", "=", "d", ".", "e", "=", "l", "\n">>,
     <<"g", "e", "t", " ", "S", "R", "S", "1", "=", "h", "=", "t", "=", "d", ".", "e", "=", "l", "@", "f", ".", "g", "@", "h", ".", "i", "\n">>,
     <<"g", "e", "t", " ", "u", "s", "e", "r", "@", "e", "x", "a", "m", "p", "l", "e", ".", "c", "o", "m">>,
     <<"g", "e", "t", " ", "S", "R", "S", "0", "=", "h", "=", "t", "=", "d", ".", "e", "=", "l">>,
     <<"g", "e", "t", " ", "S", "R", "S", "0", "=", "i", "n", "c", "o", "m", "p", "l", "e", "t", "e">>,
     <<"p", "u", "t", " ", "s", "o", "m", "e", "t", "h", "i", "n", "g">>,
     <<"g">>,
     <<"g", "e", "t", " ", "u", "s", "e", "r", "@", "e", "x", "a", "m", "p", "l", "e", ".", "c", "o", "m", "\n", "g", "e", "t", " ", "S", "R", "S", "0", "=", "h", "=", "t", "=", "d", ".", "e", "=", "l", "\n">>}

\* the request texts of the resolver specification
ResolveTexts ==
    {GetLine(a) : a \in Addresses \cup TestAddresses} \cup OtherTexts

\* the request texts of the server specification
ServerTexts ==
    {<<"g", "e", "t", " ", "u", "s", "e", "r", "@", "e", "x", "a", "m", "p", "l", "e", ".", "c", "o", "m", "\n">>,
     <<"g", "e", "t", " ", "S", "R", "S", "0", "=", "i", "n", "c", "o", "m", "p", "l", "e", "t", "e", "\n">>,
     <<"p", "u", "t", " ", "s", "o", "m", "e", "t", "h", "i", "n", "g">>}

\* the request texts of concurrent clients: a complete request, and a text
\* whose newline never comes
ConcurrentTexts ==
    {<<"g", "e", "t", " ", "a", "@", "b", ".", "c", "d", "\n">>,
     <<"g", "e", "t", " ", "a", "@">>}

\* the address of a "200 <address>\n" response
ResponseAddress(text) == SubSeq(text, 5, Len(text) - 1)

\* a client has read a "200 <address>" answer on connection c
Answered(c) ==
    /\ conns[c].client = "open"
    /\ conns[c].hpc = "done"
    /\ conns[c].out # <<>>
    /\ conns[c].out[1][1] = "2"

\* a client resolves again the address it was given on connection prev
ClientRequery(c, prev) ==
    /\ Answered(prev)
    /\ ClientSend(c, {GetLine(ResponseAddress(conns[prev].out[1]))})

(***************************************************************************)
(* Specifications.                                                         *)
(***************************************************************************)
Outcomes == {"ok", "lookup", "atoi", "set"}

Startup(configs) ==
    \/ \E c \in configs : LoadConfig(c)
    \/ LoadConfigFail
    \/ InitLogging
    \/ \E logToStdOut \in BOOLEAN : InitLoggingFail(logToStdOut)
    \/ \E outcome \in Outcomes : DropGroup(outcome)
    \/ \E outcome \in Outcomes : DropUser(outcome)
    \/ \E outcome \in {"ok", "user", "group"} : CheckIds(outcome)
    \/ Listen
    \/ ListenFail

Handler(c) ==
    \/ \E fails \in BOOLEAN : HandleRead(c, fails)
    \/ HandleRequest(c)
    \/ HandleClose(c)

\* the server: MaxConns clients at once, with and without a fallback
Init == InitWith({"root"})

Next ==
    \/ Startup(ResolveConfigs)
    \/ AcceptFail
    \/ \E c \in Conns :
        \/ Accept(c)
        \/ Handler(c)
        \/ ClientConnect(c)
        \/ ClientSend(c, ConcurrentTexts)
        \/ \E how \in {"closed", "reset"} : ClientClose(c, how)

Spec == Init /\ [][Next]_vars

\* the startup: any configuration, started as root or as an ordinary
\* user, then one client
InitStartup == InitWith({"root", "srs"})

NextStartup ==
    \/ Startup(Configs)
    \/ AcceptFail
    \/ Accept(1)
    \/ Handler(1)
    \/ ClientConnect(1)
    \/ ClientSend(1, ServerTexts)
    \/ \E how \in {"closed", "reset"} : ClientClose(1, how)

StartupSpec == InitStartup /\ [][NextStartup]_vars

\* the resolver: one client that sends any request text, and a second one
\* that resolves again the address the first was given
InitResolve == InitWith({"root"})

NextResolve ==
    \/ Startup(ResolveConfigs)
    \/ \E c \in {1, 2} : Accept(c) \/ Handler(c)
    \/ ClientConnect(1)
    \/ ClientSend(1, ResolveTexts)
    \/ \E how \in {"closed", "reset"} : ClientClose(1, how)
    \/ Answered(1) /\ ClientConnect(2)
    \/ ClientRequery(2, 1)
    \/ ClientClose(2, "closed")

ResolveSpec == InitResolve /\ [][NextResolve]_vars

\* the scheduling: two clients at once, and every goroutine that can run
\* is run in the end (the Go scheduler starves no runnable goroutine);
\* nothing is assumed of the clients or of Accept
Pair == {1, 2}

InitFair == InitWith({"root"})

NextFair ==
    \/ Startup(ResolveConfigs)
    \/ AcceptFail
    \/ \E c \in Pair :
        \/ Accept(c)
        \/ Handler(c)
        \/ ClientConnect(c)
        \/ ClientSend(c, ConcurrentTexts)
        \/ \E how \in {"closed", "reset"} : ClientClose(c, how)

FairSpec ==
    /\ InitFair
    /\ [][NextFair]_vars
    /\ \A c \in Pair : WF_vars(Handler(c))

\* the same requests again: two clients at once that send the texts of the
\* server specification or a decodable SRS address, under every verbosity
\* and fallback setting
LevelConfigs ==
    {Config(level, fallback, "", "") :
        level \in {"DEBUG", "error"}, fallback \in {<<>>, RootAtDomain}}

RepeatedTexts ==
    ServerTexts \cup {GetLine(SRS0Prefix \o <<"h", "=", "t", "=", "d", ".", "e", "=", "l">>)}

InitRepeat == InitWith({"root"})

NextRepeat ==
    \/ Startup(LevelConfigs)
    \/ AcceptFail
    \/ \E c \in Pair :
        \/ Accept(c)
        \/ Handler(c)
        \/ ClientConnect(c)
        \/ ClientSend(c, RepeatedTexts)
        \/ \E how \in {"closed", "reset"} : ClientClose(c, how)

RepeatSpec == InitRepeat /\ [][NextRepeat]_vars

\* isCleanEmail on its own: the strings of Strings(MaxBody), their "=" being
\* any one of the characters of notAllowedChars
CleanInputs ==
    {[i \in 1..Len(s) |-> IF s[i] = "=" THEN ch ELSE s[i]] :
        s \in Strings(MaxBody),
        ch \in {" ", "<", ">", "(", ")", ",", ";", "=", "\""}}

\* fmt.Sprint of a bool
SprintBool(b) == IF b THEN <<"t", "r", "u", "e">> ELSE <<"f", "a", "l", "s", "e">>

\* the argument is in the address field of connection 1
InitClean ==
    /\ pc = "isCleanEmail"
    /\ cfg = NoConfig
    /\ currentLogLevel = "LogError"
    /\ euid = "root"
    /\ egid = "root"
    /\ steps = <<>>
    /\ warnings = {}
    /\ acceptErrors = 0
    /\ \E s \in CleanInputs :
          conns = [c \in Conns |-> IF c = 1 THEN [IdleConn EXCEPT !.address = s]
                                   ELSE IdleConn]

\* isCleanEmail(address) is called and returns: out is what it returned
CallIsCleanEmail ==
    /\ pc = "isCleanEmail"
    /\ pc' = "return"
    /\ conns' = [conns EXCEPT
                    ![1].used = {"isCleanEmail"},
                    ![1].out = <<SprintBool(isCleanEmail(conns[1].address))>>]
    /\ UNCHANGED <<cfg, currentLogLevel, euid, egid, steps, warnings, acceptErrors>>

NextClean == CallIsCleanEmail

CleanSpec == InitClean /\ [][NextClean]_vars


(***************************************************************************)
(* Vocabulary of the properties, stated on sets of positions rather than   *)
(* with the string functions of the program.                               *)
(***************************************************************************)
Whitespace == {" ", "\t", "\n", "\r", "\f"}

\* the positions of ch in s
Positions(s, ch) == {i \in 1..Len(s) : s[i] = ch}

\* the position of the n-th ch of s
Nth(s, ch, n) ==
    CHOOSE i \in Positions(s, ch) : Cardinality({j \in Positions(s, ch) : j < i}) = n - 1

\* s without its leading and trailing whitespace
Core(s) ==
    LET solid == {i \in 1..Len(s) : s[i] \notin Whitespace}
    IN  IF solid = {} THEN <<>>
        ELSE SubSeq(s, CHOOSE i \in solid : \A j \in solid : i <= j,
                       CHOOSE i \in solid : \A j \in solid : j <= i)

\* the trimmed form of the line begins with the token "get "
IsGet(line) ==
    LET t == Core(line)
    IN  Len(t) >= 4 /\ t[1] = "g" /\ t[2] = "e" /\ t[3] = "t" /\ t[4] = " "

\* the address a "get" line asks for
AddressIn(line) == LET t == Core(line) IN Core(SubSeq(t, 5, Len(t)))

\* a starts with SRS0= or SRS1=
SRSPrefixed(a) ==
    Len(a) >= 5 /\ a[1] = "S" /\ a[2] = "R" /\ a[3] = "S" /\ a[4] \in {"0", "1"} /\ a[5] = "="

\* a is SRSn=H=T=D=L: D is what lies between its third and fourth "=", L
\* what follows the fourth
HasFiveFields(a) == SRSPrefixed(a) /\ Cardinality(Positions(a, "=")) >= 4
FieldD(a) == SubSeq(a, Nth(a, "=", 3) + 1, Nth(a, "=", 4) - 1)
FieldL(a) == SubSeq(a, Nth(a, "=", 4) + 1, Len(a))

\* the clean-email rules
CleanRules(s) ==
    /\ \A i \in 1..Len(s) : s[i] \notin {" ", "<", ">", "(", ")", ",", ";", "=", "\""}
    /\ Cardinality(Positions(s, "@")) = 1
    /\ LET at == Nth(s, "@", 1)
       IN  /\ at > 1
           /\ Len(s) - at >= 3
           /\ \E i \in (at + 1)..Len(s) : s[i] = "."

\* the handler of connection c has written its answer
Responded(c) == conns[c].hpc \in {"close", "done"}

\* the handler of connection c has answered a line it has read
Answers(c) == Responded(c) /\ ~conns[c].err

\* the handler of connection c has answered a "get" line
AnswersGet(c) == Answers(c) /\ IsGet(conns[c].line)

\* the answer the fallback policy prescribes
FallbackAnswer ==
    IF cfg.FallbackAddress # <<>>
    THEN <<"2", "0", "0", " ">> \o cfg.FallbackAddress \o <<"\n">>
    ELSE InvalidRequestLine

\* the answer "200 <a>"
Answer200(a) == <<"2", "0", "0", " ">> \o a \o <<"\n">>

(***************************************************************************)
(* C1: on every connection handle writes at most one response, each        *)
(* response is one newline-terminated line, and once the connection is     *)
(* closed exactly one has been written.                                    *)
(***************************************************************************)
C1_OneResponseLine ==
    \A c \in Conns :
        /\ Len(conns[c].out) <= 1
        /\ conns[c].closed => Len(conns[c].out) = 1
        /\ \A i \in 1..Len(conns[c].out) :
              Positions(conns[c].out[i], "\n") = {Len(conns[c].out[i])}

\* two closed connections, one answered with a decoded address and one
\* with the fallback decision
C1_Witness ==
    /\ conns[1].closed /\ conns[1].used = {"decodeSRS"}
    /\ conns[2].closed /\ "FallbackAddress" \in conns[2].used

(***************************************************************************)
(* C2: a "get" line whose address is neither SRS-prefixed nor a clean      *)
(* e-mail, or is SRS-prefixed and fails to decode, is answered             *)
(* "200 <fallback>" when a fallback address is configured and              *)
(* "500 invalid request" when none is.  The line is a "get" line when its  *)
(* trimmed form begins with "get ".                                        *)
(***************************************************************************)
C2_FallbackPolicy ==
    \A c \in Conns :
        AnswersGet(c) =>
            LET a == AddressIn(conns[c].line)
            IN  (\/ ~SRSPrefixed(a) /\ ~CleanRules(a)
                 \/ SRSPrefixed(a) /\ decodeSRS(a).err)
                    => conns[c].out = <<FallbackAnswer>>

\* an address with an "@" that is neither SRS-prefixed nor a clean e-mail,
\* answered with a fallback configured
C2_Witness ==
    /\ cfg.FallbackAddress # <<>>
    /\ AnswersGet(1)
    /\ ~SRSPrefixed(AddressIn(conns[1].line))
    /\ ~CleanRules(AddressIn(conns[1].line))
    /\ Positions(AddressIn(conns[1].line), "@") # {}

C4_DecodeEmbeddedAddress ==
    \A c \in Conns :
        AnswersGet(c) =>
            LET a == AddressIn(conns[c].line)
            IN  (HasFiveFields(a) /\ Positions(FieldL(a), "@") # {})
                    => LET L1 == SubSeq(FieldL(a), 1, Nth(FieldL(a), "@", 1) - 1)
                       IN  /\ decodeSRS(a) = [val |-> L1 \o <<"@">> \o FieldD(a), err |-> FALSE]
                           /\ conns[c].out = <<Answer200(L1 \o <<"@">> \o FieldD(a))>>

\* an L with two "@" and a non-empty first part
C4_Witness ==
    /\ AnswersGet(1)
    /\ LET a == AddressIn(conns[1].line)
       IN  /\ HasFiveFields(a)
           /\ Cardinality(Positions(FieldL(a), "@")) = 2
           /\ Nth(FieldL(a), "@", 1) > 1
           /\ FieldD(a) # <<>>

(***************************************************************************)
(* C5: an address that starts with SRS0= or SRS1= and has fewer than four  *)
(* "=" fails to decode, and what is sent for it is the fallback answer,    *)
(* never a decoded address.                                                *)
(***************************************************************************)
C5_TooFewFields ==
    \A c \in Conns :
        AnswersGet(c) =>
            LET a == AddressIn(conns[c].line)
            IN  (SRSPrefixed(a) /\ Cardinality(Positions(a, "=")) < 4)
                    => /\ decodeSRS(a).err
                       /\ conns[c].out = <<FallbackAnswer>>

\* an address with exactly three "="
C5_Witness ==
    /\ AnswersGet(1)
    /\ SRSPrefixed(AddressIn(conns[1].line))
    /\ Cardinality(Positions(AddressIn(conns[1].line), "=")) = 3

(***************************************************************************)
(* C6: an address that is not SRS-prefixed and satisfies the clean-email   *)
(* rules is answered "200 <address>", with or without a fallback; a client *)
(* that resolves the address of that answer again gets the same answer.    *)
(***************************************************************************)
C6_PassThrough ==
    \A c \in Conns :
        AnswersGet(c) =>
            LET a == AddressIn(conns[c].line)
            IN  (~SRSPrefixed(a) /\ CleanRules(a))
                    => /\ conns[c].out = <<Answer200(a)>>
                       /\ \A d \in Conns :
                            (/\ Responded(d)
                             /\ conns[d].inbuf =
                                    GetPrefix \o SubSeq(conns[c].out[1], 5, Len(conns[c].out[1])))
                                => conns[d].out = conns[c].out

\* a clean address passed through with a fallback configured, and resolved
\* again on the second connection
C6_Witness ==
    /\ cfg.FallbackAddress # <<>>
    /\ AnswersGet(1)
    /\ ~SRSPrefixed(AddressIn(conns[1].line))
    /\ CleanRules(AddressIn(conns[1].line))
    /\ Responded(2)

(***************************************************************************)
(* C7: a line whose trimmed form does not begin with "get " is answered    *)
(* "500 invalid request"; the handler neither classifies nor decodes it    *)
(* and does not read the fallback address.                                 *)
(***************************************************************************)
C7_UnknownCommand ==
    \A c \in Conns :
        (Answers(c) /\ ~IsGet(conns[c].line))
            => /\ conns[c].out = <<InvalidRequestLine>>
               /\ conns[c].used = {}
               /\ conns[c].address = <<>>

\* a bare "get" followed by whitespace, with a fallback configured
C7_Witness ==
    /\ cfg.FallbackAddress # <<>>
    /\ Answers(1)
    /\ Len(conns[1].line) > 4
    /\ Core(conns[1].line) = <<"g", "e", "t">>

(***************************************************************************)
(* C8: when no newline-terminated line can be read, the handler answers    *)
(* "500 read error" and closes; it reads once, and neither classifies nor  *)
(* decodes what was received, nor reads the fallback address.              *)
(***************************************************************************)
C8_ReadError ==
    \A c \in Conns :
        /\ conns[c].reads <= 1
        /\ (conns[c].hpc \in {"handle", "close", "done"} /\ Positions(conns[c].inbuf, "\n") = {})
                => conns[c].err
        /\ (Responded(c) /\ conns[c].err)
                => /\ conns[c].out = <<ReadErrorLine>>
                   /\ conns[c].used = {}
                   /\ conns[c].address = <<>>
                   /\ conns[c].reads = 1
        /\ (conns[c].hpc = "done" /\ conns[c].err) => conns[c].closed

\* a complete "get <address>" text without its newline, the client gone,
\* a fallback configured
C8_Witness ==
    /\ cfg.FallbackAddress # <<>>
    /\ conns[1].hpc = "done"
    /\ conns[1].client = "closed"
    /\ conns[1].inbuf = <<"g", "e", "t", " ", "u", "s", "e", "r", "@", "e", "x", "a", "m", "p", "l", "e", ".", "c", "o", "m">>


(***************************************************************************)
(* Vocabulary of the startup properties.                                   *)
(***************************************************************************)
\* the positions of the calls of name in steps
CallsOf(name) == {i \in 1..Len(steps) : steps[i].call = name}

\* the calls of dropPrivileges
DropCalls ==
    {"LookupGroup", "Atoi(Gid)", "Setgid", "Lookup", "Atoi(Uid)", "Setuid",
     "LookupId", "LookupGroupId"}

\* the calls of main and dropPrivileges
StartupCalls == DropCalls \cup {"LoadConfig", "InitLogging", "Listen"}

\* dropPrivileges has returned nil before position i of steps, every
\* configured switch done
DroppedBefore(i) ==
    /\ \E j \in 1..(i - 1) : steps[j] = Call("LookupGroupId", TRUE)
    /\ cfg.DropGroup # "" => \E j \in 1..(i - 1) : steps[j] = Call("Setgid", TRUE)
    /\ cfg.DropUser # "" => \E j \in 1..(i - 1) : steps[j] = Call("Setuid", TRUE)

\* some handler has been started
Accepted == \E c \in Conns : conns[c].hpc # "none"

(***************************************************************************)
(* C9, as stated: the listen address is bound before the group/user        *)
(* identity is switched, and no connection is accepted before the switch   *)
(* has completed.                                                          *)
(***************************************************************************)
C9_BindBeforeSwitch ==
    /\ \A i \in CallsOf("Setgid") \cup CallsOf("Setuid") :
          \E j \in 1..(i - 1) : steps[j] = Call("Listen", TRUE)
    /\ Accepted => DroppedBefore(Len(steps) + 1)

(***************************************************************************)
(* C9, amended: the privilege drop runs once, before the listening socket  *)
(* is bound: every call of dropPrivileges precedes net.Listen, net.Listen  *)
(* is called only after dropPrivileges has returned with every configured  *)
(* switch done, and no connection is accepted before that.                 *)
(***************************************************************************)
C9_SwitchBeforeBind ==
    /\ \A name \in DropCalls : Cardinality(CallsOf(name)) <= 1
    /\ \A i \in CallsOf("Listen") :
          /\ DroppedBefore(i)
          /\ \A name \in DropCalls : \A j \in CallsOf(name) : j < i
    /\ Accepted =>
          /\ \E i \in CallsOf("Listen") : steps[i].ok
          /\ cfg.DropGroup # "" => egid = cfg.DropGroup
          /\ cfg.DropUser # "" => euid = cfg.DropUser

\* a connection accepted by a server that had a group and a user to switch to
C9_Witness ==
    /\ Accepted
    /\ cfg.DropGroup # "" /\ cfg.DropUser # ""

(***************************************************************************)
(* C10: when a startup step fails (configuration load, logging setup, a    *)
(* lookup or switch of the privilege drop, the bind) the process ends:     *)
(* the failed call is its last, no connection is ever accepted and no      *)
(* response written, and no step is made twice.                            *)
(***************************************************************************)
C10_StartupFatal ==
    /\ \A i \in 1..Len(steps) :
          ~steps[i].ok =>
              /\ i = Len(steps)
              /\ pc = "exit"
              /\ steps[i].call \in StartupCalls
    /\ pc = "exit" =>
          /\ steps # <<>> /\ ~steps[Len(steps)].ok
          /\ \A c \in Conns : conns[c].hpc = "none" /\ conns[c].out = <<>>
    /\ \A name \in StartupCalls : Cardinality(CallsOf(name)) <= 1

\* the process has ended on a failed Setuid, after a successful Setgid
C10_Witness ==
    /\ pc = "exit"
    /\ steps[Len(steps)] = Call("Setuid", FALSE)
    /\ \E i \in 1..Len(steps) : steps[i] = Call("Setgid", TRUE)


(***************************************************************************)
(* Vocabulary of the accept-loop properties.                               *)
(***************************************************************************)
\* connection c waits in the backlog of the listening socket
Pending(c) == conns[c].client # "idle" /\ conns[c].hpc = "none"

\* the connections whose handler has been started
Handled == {c \in Conns : conns[c].hpc # "none"}

(***************************************************************************)
(* C11: a failed Accept does not stop the listener: once Accept has        *)
(* failed main is still in its accept loop and every pending connection    *)
(* can still be accepted; the failed call starts no handler and touches no *)
(* connection; a later successful Accept starts the handler of the         *)
(* connection it returned, in its first state, and of no other.            *)
(***************************************************************************)
C11_AcceptFailureNotFatal ==
    /\ [](acceptErrors > 0 =>
            /\ pc = "Accept"
            /\ \A c \in Conns : Pending(c) => ENABLED Accept(c))
    /\ [][acceptErrors' # acceptErrors =>
            /\ acceptErrors' = acceptErrors + 1
            /\ pc' = "Accept"
            /\ conns' = conns]_vars
    /\ [][(acceptErrors > 0 /\ Handled' # Handled) =>
            \E c \in Conns :
                /\ Pending(c)
                /\ Handled' = Handled \cup {c}
                /\ conns' = [conns EXCEPT ![c].hpc = "read"]]_vars

\* Accept has failed as often as the model follows, one connection has been
\* answered and closed, another one is being read
C11_Witness ==
    /\ acceptErrors = MaxAcceptErrors
    /\ \E c, d \in Conns :
        /\ conns[c].hpc = "done" /\ Len(conns[c].out) = 1
        /\ conns[d].hpc = "read"


\* the handler of connection c waits in ReadString: no newline has arrived
\* and the client has not closed or reset the connection
AwaitingLine(c) ==
    /\ conns[c].hpc = "read"
    /\ conns[c].client = "open"
    /\ Positions(conns[c].inbuf, "\n") = {}

\* the handler of connection c has something to go on with: a line to read,
\* an end of stream to notice, or a line already read
Runnable(c) ==
    \/ conns[c].hpc = "read" /\ ~AwaitingLine(c)
    \/ conns[c].hpc \in {"handle", "close"}

(***************************************************************************)
(* C12: main never waits for a handler, and connections do not touch each  *)
(* other: whatever the other handlers are doing (blocked on their request  *)
(* line included), a pending connection can be accepted and a handler that *)
(* has something to go on with can take its next step; every step changes  *)
(* the record of at most one connection, so the response and the closing   *)
(* of a connection never come from a step of, or a failure on, another.    *)
(***************************************************************************)
C12_IndependentConnections ==
    /\ [](\A c \in Conns :
            /\ (pc = "Accept" /\ Pending(c)) => ENABLED Accept(c)
            /\ Runnable(c) => ENABLED Handler(c))
    /\ [][\A c, d \in Conns :
            (c # d /\ conns'[c] # conns[c]) => conns'[d] = conns[d]]_vars

\* two handlers alive at once: one waits for a line of which nothing has
\* come, the other has its line in the buffer and its client still there
C12_Witness ==
    \E c, d \in Conns :
        /\ AwaitingLine(c) /\ conns[c].inbuf = <<>>
        /\ conns[d].hpc = "read" /\ ~AwaitingLine(d) /\ conns[d].client = "open"


(***************************************************************************)
(* Vocabulary of the progress properties.                                  *)
(***************************************************************************)
\* the client of connection c has sent a newline-terminated line or has
\* ended its side of the connection
LineOrEnd(c) ==
    \/ Positions(conns[c].inbuf, "\n") # {}
    \/ conns[c].client \in {"closed", "reset"}

(***************************************************************************)
(* C13: under fair scheduling of the handlers, an accepted connection      *)
(* whose client has sent a newline-terminated line or has ended its side   *)
(* is answered in the end, and closed in the end; it is closed only once   *)
(* its one response has been written; and a handler that has read its      *)
(* line goes on to the response without waiting for anything and without   *)
(* reading again.                                                          *)
(***************************************************************************)
C13_RespondsThenCloses ==
    /\ \A c \in Pair :
        /\ (conns[c].hpc # "none" /\ LineOrEnd(c)) ~> Responded(c)
        /\ (conns[c].hpc # "none" /\ LineOrEnd(c)) ~> conns[c].closed
        /\ (conns[c].hpc = "handle") ~> Responded(c)
    /\ [](\A c \in Pair :
            /\ conns[c].closed => (Responded(c) /\ Len(conns[c].out) = 1)
            /\ conns[c].reads <= 1)
    /\ [][\A c \in Pair :
            conns[c].hpc = "handle" =>
                (conns'[c].hpc = "handle" \/ (Responded(c))')]_vars

\* both kinds of client served to the end: one that sent its line and stays
\* connected, one that ended its side having sent no newline
C13_Witness ==
    \E c, d \in Pair :
        /\ conns[c].closed /\ ~conns[c].err /\ conns[c].client = "open"
        /\ conns[d].closed /\ conns[d].err /\ conns[d].client = "closed"


(***************************************************************************)
(* Vocabulary of the success responses.                                    *)
(***************************************************************************)
\* the handler of connection c has answered "200 <address>"
Succeeded(c) ==
    /\ Responded(c)
    /\ Len(conns[c].out) = 1
    /\ Len(conns[c].out[1]) >= 5
    /\ SubSeq(conns[c].out[1], 1, 4) = <<"2", "0", "0", " ">>

\* the <address> of that answer
SuccessAddress(c) == SubSeq(conns[c].out[1], 5, Len(conns[c].out[1]) - 1)

(***************************************************************************)
(* C14: with no fallback configured, or with one that is a clean e-mail,   *)
(* the address of every "200 <address>" answer satisfies the clean-email   *)
(* rules.  The handler writes what decodeSRS returns without passing it to *)
(* isCleanEmail, so the statement fails on decoded addresses.              *)
(***************************************************************************)
C14_SuccessIsClean ==
    (cfg.FallbackAddress = <<>> \/ CleanRules(cfg.FallbackAddress)) =>
        \A c \in Conns : Succeeded(c) => CleanRules(SuccessAddress(c))


(***************************************************************************)
(* C15: isCleanEmail(s) returns, for every s and for the empty string too; *)
(* it returns true exactly when s has none of the characters space < > ( ) *)
(* , ; = and double quote, has exactly one "@", something before the "@",  *)
(* at least 3 characters after it and a "." among them.                    *)
(***************************************************************************)
C15_CleanEmailRules ==
    pc = "return" =>
        /\ conns[1].out \in {<<SprintBool(TRUE)>>, <<SprintBool(FALSE)>>}
        /\ (conns[1].out = <<SprintBool(TRUE)>>) <=> CleanRules(conns[1].address)

\* isCleanEmail has returned for the empty string
C15_Witness ==
    /\ pc = "return"
    /\ conns[1].address = <<>>
    /\ conns[1].out = <<SprintBool(FALSE)>>


\* L of SRSn=H=T=D=L up to its first "@", all of L when it has none
FieldLocal(a) ==
    IF Positions(FieldL(a), "@") = {} THEN FieldL(a)
    ELSE SubSeq(FieldL(a), 1, Nth(FieldL(a), "@", 1) - 1)

C17_TooManyPartsInvalid ==
    \A c \in Conns :
        AnswersGet(c) =>
            LET a == AddressIn(conns[c].line)
            IN  (/\ SRSPrefixed(a)
                 /\ a[4] = "0"
                 /\ Cardinality(Positions(a, "=")) > 4)
                    => /\ conns[c].out = <<FallbackAnswer>>
                       /\ "FallbackAddress" \in conns[c].used


(***************************************************************************)
(* Vocabulary of the privilege-drop properties.                            *)
(***************************************************************************)
\* the positions in steps of the calls of each section of dropPrivileges
GroupSteps == UNION {CallsOf(n) : n \in {"LookupGroup", "Atoi(Gid)", "Setgid"}}
UserSteps == UNION {CallsOf(n) : n \in {"Lookup", "Atoi(Uid)", "Setuid"}}
CheckSteps == UNION {CallsOf(n) : n \in {"LookupId", "LookupGroupId"}}

\* the call at position i of steps has failed
Failed(i) == ~steps[i].ok

(***************************************************************************)
(* C18: in dropPrivileges the group is switched before the user: every     *)
(* call of the group section precedes every call of the user section, and  *)
(* with both configured the user section starts only after a successful    *)
(* Setgid; when a call of the group section fails no call of the user      *)
(* section and no verification call is ever made and the failure ends the  *)
(* startup; the verification calls are made only after every configured    *)
(* switch has succeeded.                                                   *)
(***************************************************************************)
C18_GroupThenUserThenCheck ==
    /\ \A g \in GroupSteps : \A u \in UserSteps \cup CheckSteps : g < u
    /\ \A u \in UserSteps : \A k \in CheckSteps : u < k
    /\ (cfg.DropGroup # "" /\ UserSteps # {}) =>
            \E g \in CallsOf("Setgid") :
                /\ steps[g].ok
                /\ \A u \in UserSteps : g < u
    /\ (\E g \in GroupSteps : Failed(g)) =>
            /\ UserSteps = {} /\ CheckSteps = {}
            /\ pc = "exit"
            /\ Failed(Len(steps))
    /\ CheckSteps # {} =>
            /\ cfg.DropGroup # "" =>
                \E g \in CallsOf("Setgid") :
                    steps[g].ok /\ \A k \in CheckSteps : g < k
            /\ cfg.DropUser # "" =>
                \E u \in CallsOf("Setuid") :
                    steps[u].ok /\ \A k \in CheckSteps : u < k
            /\ \A i \in GroupSteps \cup UserSteps : ~Failed(i)

\* group and user both configured and switched, the verification done
C18_Witness ==
    /\ cfg.DropGroup # "" /\ cfg.DropUser # ""
    /\ \E g \in CallsOf("Setgid"), u \in CallsOf("Setuid"), k \in CallsOf("LookupGroupId") :
          steps[g].ok /\ steps[u].ok /\ steps[k].ok /\ g < u /\ u < k
    /\ euid = cfg.DropUser /\ egid = cfg.DropGroup


\* the check section of dropPrivileges has run, to whatever end
Checked == CheckSteps # {}

\* dropPrivileges has returned nil
DropReturnedNil == \E k \in CallsOf("LookupGroupId") : steps[k].ok

\* main has gone on after dropPrivileges: it is about to bind, it accepts,
\* or it has ended on a failed net.Listen
GoneOnToBind ==
    \/ pc \in {"Listen", "Accept"}
    \/ pc = "exit" /\ steps[Len(steps)] = Call("Listen", FALSE)

(***************************************************************************)
(* C19, as stated: once the check section of dropPrivileges has run, with  *)
(* no drop user and group configured, or with the effective user or group  *)
(* still root, a warning has been logged, dropPrivileges has returned      *)
(* success and main has gone on to bind and accept.                        *)
(***************************************************************************)
C19_WarnsAndGoesOn ==
    (Checked /\ (\/ cfg.DropUser = "" /\ cfg.DropGroup = ""
                 \/ euid = "root"
                 \/ egid = "root"))
        => /\ warnings # {}
           /\ DropReturnedNil
           /\ GoneOnToBind

(***************************************************************************)
(* C19, amended: when the check section has resolved the effective user    *)
(* and group, dropPrivileges returns success whether or not they are root, *)
(* main goes on to bind and accept, and a warning has been logged for the  *)
(* user exactly when the effective user is root and for the group exactly  *)
(* when the effective group is root (so a process started as root with     *)
(* nothing configured logs both, one started as an ordinary user logs      *)
(* none); when the check section cannot resolve one of them, no warning is *)
(* logged and the startup ends.                                            *)
(***************************************************************************)
C19_RootWarningNotFatal ==
    /\ DropReturnedNil =>
            /\ ("user" \in warnings) <=> (euid = "root")
            /\ ("group" \in warnings) <=> (egid = "root")
            /\ GoneOnToBind
    /\ (Checked /\ ~DropReturnedNil) =>
            /\ warnings = {}
            /\ pc = "exit"
            /\ Failed(Len(steps))
    /\ ~Checked => warnings = {}

\* a process that stays root user and root group, nothing configured, has
\* logged both warnings and has served a connection
C19_Witness ==
    /\ cfg.DropUser = "" /\ cfg.DropGroup = ""
    /\ euid = "root" /\ egid = "root"
    /\ warnings = {"user", "group"}
    /\ conns[1].closed /\ Len(conns[1].out) = 1


(***************************************************************************)
(* C20: while the client of an accepted connection is connected and has    *)
(* sent no newline, the handler stays in its ReadString: no step of the    *)
(* handler is possible, none has written a response or closed the          *)
(* connection, and no step of anything takes the handler out of the read   *)
(* or writes to or closes the connection; only the client, by sending a    *)
(* newline or ending the connection, ends the wait.                        *)
(***************************************************************************)
C20_SilentClientHoldsHandler ==
    /\ [](\A c \in Conns :
            AwaitingLine(c) =>
                /\ ~ENABLED Handler(c)
                /\ conns[c].out = <<>>
                /\ ~conns[c].closed
                /\ conns[c].reads = 0)
    /\ [][\A c \in Conns :
            AwaitingLine(c) =>
                /\ conns'[c].hpc = "read"
                /\ conns'[c].out = <<>>
                /\ ~conns'[c].closed
                /\ (AwaitingLine(c))' \/ conns'[c].client # conns[c].client
                                      \/ conns'[c].inbuf # conns[c].inbuf]_vars

\* a client that has sent text without a newline keeps its handler in the
\* read while every other connection has been served and closed
C20_Witness ==
    \E c \in Conns :
        /\ AwaitingLine(c)
        /\ conns[c].inbuf # <<>>
        /\ \A d \in Conns \ {c} : conns[d].closed /\ Len(conns[d].out) = 1


(***************************************************************************)
(* Vocabulary of the shared-state properties.                              *)
(***************************************************************************)
\* what main and every handler can see: the configuration record, the log
\* level, the identity of the process, where main is and what it has done
Shared == <<pc, cfg, currentLogLevel, euid, egid, steps, warnings, acceptErrors>>

\* the step taken is a step of the handler of connection c
HandlerStep(c) ==
    /\ conns[c].hpc \in {"read", "handle", "close"}
    /\ conns'[c].hpc # conns[c].hpc

\* InitLogging has returned nil
LoggingReady == \E i \in CallsOf("InitLogging") : steps[i].ok

(***************************************************************************)
(* C21: nothing the handlers share is written after startup: the           *)
(* configuration record changes only in the step in which LoadConfig       *)
(* returns it, the log level changes only in InitLogging, which has        *)
(* returned before any connection is accepted, and a step of a handler     *)
(* changes neither the configuration, the log level or anything else main  *)
(* reads, nor the record of another connection.                            *)
(***************************************************************************)
C21_NoSharedWrites ==
    /\ [][cfg' # cfg => (pc = "LoadConfig" /\ cfg = NoConfig /\ ~Accepted')]_vars
    /\ [][currentLogLevel' # currentLogLevel =>
            (pc = "InitLogging" /\ pc' # "InitLogging" /\ ~Accepted')]_vars
    /\ [](Accepted =>
            /\ LoggingReady
            /\ cfg # NoConfig
            /\ currentLogLevel = levelOf(cfg.LogLevel))
    /\ [][\A c \in Conns :
            HandlerStep(c) =>
                /\ Shared' = Shared
                /\ \A d \in Conns \ {c} : conns'[d] = conns[d]]_vars

\* the level InitLogging has set is not the initial one, and two handlers
\* have run to their end under it
C21_Witness ==
    /\ currentLogLevel # "LogError"
    /\ currentLogLevel = levelOf(cfg.LogLevel)
    /\ \A c \in {1, 2} : conns[c].closed /\ Len(conns[c].out) = 1


(***************************************************************************)
(* Vocabulary of the determinism property.                                 *)
(***************************************************************************)
\* the one response to what ReadString returned, given the fallback address
\* and nothing else
ResponseTo(line, err, fallback) ==
    IF err THEN ReadErrorLine
    ELSE IF ~IsGet(line) THEN InvalidRequestLine
    ELSE LET a == AddressIn(line)
         IN  IF HasFiveFields(a)
             THEN Answer200(FieldLocal(a) \o <<"@">> \o FieldD(a))
             ELSE IF ~SRSPrefixed(a) /\ CleanRules(a)
             THEN Answer200(a)
             ELSE IF fallback # <<>> THEN Answer200(fallback)
             ELSE InvalidRequestLine

(***************************************************************************)
(* C22: the response on a connection is determined by what its ReadString  *)
(* returned (the line, or the failure) and by the configured fallback      *)
(* address: in every state, at every log level, after any number of failed *)
(* accepts and whatever the other connection does, it is the value of one  *)
(* function of these, and two connections that have read the same line     *)
(* have been given the same response.                                      *)
(***************************************************************************)
C22_Deterministic ==
    /\ \A c \in Conns :
        Responded(c) =>
            conns[c].out = <<ResponseTo(conns[c].line, conns[c].err, cfg.FallbackAddress)>>
    /\ \A c, d \in Conns :
        (/\ Responded(c) /\ Responded(d)
         /\ conns[c].err = conns[d].err
         /\ conns[c].err \/ conns[c].line = conns[d].line)
            => conns[c].out = conns[d].out

\* at debug verbosity and after a failed accept, two connections have been
\* given the same answer to the same "get" line, one of them while its
\* client had already gone
C22_Witness ==
    /\ currentLogLevel = "LogDebug"
    /\ acceptErrors > 0
    /\ AnswersGet(1) /\ AnswersGet(2)
    /\ conns[1].line = conns[2].line
    /\ conns[1].out = conns[2].out
    /\ conns[1].client = "open" /\ conns[2].client = "closed"


(***************************************************************************)
(* C23: with a non-empty fallback address configured, every line read      *)
(* whose trimmed form begins with "get " is answered with one "200 ..."    *)
(* line; "500 invalid request" is then the answer only to a line read that *)
(* does not begin with "get ", and "500 read error" only when ReadString   *)
(* has failed.                                                             *)
(***************************************************************************)
C23_FallbackCoversGet ==
    cfg.FallbackAddress # <<>> =>
        \A c \in Conns :
            Responded(c) =>
                /\ AnswersGet(c) => Succeeded(c)
                /\ conns[c].out = <<InvalidRequestLine>> =>
                        (~conns[c].err /\ ~IsGet(conns[c].line))
                /\ conns[c].out = <<ReadErrorLine>> => conns[c].err
                /\ conns[c].out # <<InvalidRequestLine>> /\ conns[c].out # <<ReadErrorLine>>
                        => AnswersGet(c)

\* with a fallback configured, a "get" line whose address has no "@" and no
\* SRS prefix is answered "200 <fallback>"
C23_Witness ==
    /\ cfg.FallbackAddress # <<>>
    /\ AnswersGet(1)
    /\ LET a == AddressIn(conns[1].line)
       IN  a # <<>> /\ ~SRSPrefixed(a) /\ Positions(a, "@") = {}
    /\ Succeeded(1)
    /\ SuccessAddress(1) = cfg.FallbackAddress

====
